---- MODULE Spec2Model ----
(***************************************************************************)
(* MonTracker: the periodic wallet scan of main.py (monitor_wallets,       *)
(* check_wallet_activity and its scanners) over the sqlite store of        *)
(* database.py, against a chain whose head only grows.                     *)
(***************************************************************************)
EXTENDS Integers, Sequences, FiniteSets, TLC

\* ------------------------------------------------------------------ bounds
\* blocks mined on top of the initial head
MaxGrowth == 2
\* collaborator failures (chain reads, store reads/writes, deliveries) injected
MaxFaults == 1
\* /addwallet and /removewallet commands issued
MaxCmds == 2
\* seconds the wall clock advances (balance snapshots carry a timestamp)
MaxTime == 2
\* get_token_info calls
MaxResolutions == 2

\* -------------------------------------------------------- program constants
\* main.py:569  last_block = current_block - 100
BootstrapWindow == 100
\* main.py:52 and main.py:460  len(input_data) < 10 / > 10
SelectorChars == 10
\* database.py:234  thirteen "?" in the VALUES list of save_transaction
NumPlaceholders == 13

\* ------------------------------------------------------------------- chain
W == "w"
X == "x"
K == "k"
NoAddr == "none"
U1 == "u1"

TRANSFER_SIG == "Transfer(address,address,uint256)"
TRANSFER_SINGLE_SIG == "TransferSingle(address,address,address,uint256,uint256)"

\* The chain is fixed; only its head moves.  Two histories are explored: a
\* young chain starting at genesis, whose blocks hold nothing of the wallet,
\* and an old one whose head is at 1000.
InitHeads == {0, 1000}
Era(b) == IF b >= 1000 THEN 1000 ELSE 0
Off(b) == b - Era(b)

EmptyInput == [sel |-> "", len |-> 2]
Call(sel) == [sel |-> sel, len |-> 138]

Tx(b, i, f, t, v, inp, created) ==
    [hash |-> <<b, i>>, from |-> f, to |-> t, value |-> v, input |-> inp,
     created |-> created]

\* block.transactions of block b, in block order
TxsOf(b) ==
    CASE Era(b) = 0 -> <<>>
      [] Off(b) = 1 -> << Tx(b, 1, W, X, 5, EmptyInput, NoAddr),
                          Tx(b, 2, W, K, 0, Call("0xa9059cbb"), NoAddr) >>
      [] Off(b) = 2 -> << Tx(b, 1, W, K, 3, Call("0x7ff36ab5"), NoAddr),
                          Tx(b, 2, W, NoAddr, 0, Call("0x60806040"), "n1"),
                          Tx(b, 5, W, K, 0, Call("0x23b872dd"), NoAddr),
                          Tx(b, 6, X, W, 2, EmptyInput, NoAddr),
                          Tx(b, 7, X, K, 4, EmptyInput, NoAddr),
                          Tx(b, 8, W, NoAddr, 0, Call("0x60806040"), NoAddr) >>
      [] Off(b) = 3 -> << Tx(b, 1, W, K, 0, Call("0x095ea7b3"), NoAddr) >>
      [] OTHER -> <<>>

Log(b, i, token, topics, data) ==
    [hash |-> <<b, i>>, address |-> token, topics |-> topics, data |-> data,
     blockNumber |-> b]

\* the event logs of block b; topics[1] is topic0, data is a sequence of
\* 32-byte words
LogsOf(b) ==
    CASE Era(b) = 0 -> {}
      [] Off(b) = 1 -> { Log(b, 1, K, <<TRANSFER_SIG, W>>, <<5>>),
                         Log(b, 2, K, <<TRANSFER_SIG, W, X>>, <<7>>),
                         Log(b, 3, K, <<TRANSFER_SIG, X, W, 43>>, <<1>>) }
      [] Off(b) = 2 -> { Log(b, 3, K, <<TRANSFER_SIG, X, W, 42>>, <<>>),
                         Log(b, 4, K, <<TRANSFER_SINGLE_SIG, X, X, W>>, <<9, 1>>) }
      [] Off(b) = 3 -> { Log(b, 3, K, <<TRANSFER_SIG, X, W>>, <<100>>) }
      [] OTHER -> {}

\* The blocks mined on top of an initial head; every block up to an initial
\* head is empty.
Mined == { h + i : h \in InitHeads, i \in 1..MaxGrowth }

\* the blocks of from_block..to_block that can hold a transaction or a log
Blocks(from_block, to_block) ==
    { b \in Mined : from_block <= b /\ b <= to_block }

\* w3.eth.get_balance(wallet) at head h
BalanceAt(h) ==
    CASE Off(h) = 0 -> 10
      [] Off(h) = 1 -> 5
      [] Off(h) = 2 -> 2
      [] OTHER -> 4

\* ---------------------------------------------------------- pure helpers
\* abis.py FUNCTION_SIGNATURES (the entries the chain above exercises)
FUNCTION_SIGNATURES ==
    ("0xa9059cbb" :> "transfer(address,uint256)") @@
    ("0x23b872dd" :> "transferFrom(address,address,uint256)") @@
    ("0x095ea7b3" :> "approve(address,uint256)") @@
    ("0x7ff36ab5" :> "swapExactETHForTokens(uint256,address[],address,uint256)")

\* A function name is the sequence of the string pieces that make it up, so
\* that the f"0x{function_signature}" fallback is "0x" followed by the
\* ten-character prefix of the input.
get_function_name(input_data) ==
    IF input_data.len < SelectorChars
    THEN <<"Unknown">>
    ELSE IF input_data.sel \in DOMAIN FUNCTION_SIGNATURES
         THEN <<FUNCTION_SIGNATURES[input_data.sel]>>
         ELSE <<"0x", input_data.sel>>

\* int(log['data'].hex(), 16): the big-endian integer of the data words.  A
\* word is below WordBase in this model.
WordBase == 1000

RECURSIVE IntOfWords(_)
IntOfWords(ws) ==
    IF ws = <<>> THEN 0
    ELSE IntOfWords(SubSeq(ws, 1, Len(ws) - 1)) * WordBase + ws[Len(ws)]

Max(a, b) == IF a > b THEN a ELSE b

\* ------------------------------------------------------------ the store
\* wallets rows: [id, wallet_address, user_id, last_processed_block, is_active]

\* INSERT OR REPLACE INTO wallets: the row of the same (wallet_address,
\* user_id) is deleted and a new row with a fresh AUTOINCREMENT id inserted
db_add_wallet(ws, nid, addr, user, current_block) ==
    { r \in ws : ~(r.wallet_address = addr /\ r.user_id = user) } \cup
    { [id |-> nid, wallet_address |-> addr, user_id |-> user,
       last_processed_block |-> current_block, is_active |-> TRUE] }

\* a remove_wallet that deletes the row
db_remove_wallet_hard(ws, addr, user) ==
    { r \in ws : ~(r.wallet_address = addr /\ r.user_id = user) }

\* a remove_wallet that clears is_active on every row of the address
db_remove_wallet_anyuser(ws, addr, user) ==
    { IF r.wallet_address = addr
      THEN [r EXCEPT !.is_active = FALSE] ELSE r : r \in ws }

\* UPDATE wallets SET is_active = 0 WHERE wallet_address = ? AND user_id = ?
db_remove_wallet(ws, addr, user) ==
    { IF r.wallet_address = addr /\ r.user_id = user
      THEN [r EXCEPT !.is_active = FALSE] ELSE r : r \in ws }

RECURSIVE RowsById(_)
RowsById(rows) ==
    IF rows = {} THEN <<>>
    ELSE LET lo == CHOOSE r \in rows : \A q \in rows : r.id <= q.id
         IN  <<lo>> \o RowsById(rows \ {lo})

\* a get_all_tracked_wallets that returns the rows whatever their is_active
db_get_all_tracked_wallets_all(ws, us) ==
    RowsById({ r \in ws : r.user_id \in us })

\* SELECT ... FROM wallets w JOIN users u ... WHERE w.is_active = 1
db_get_all_tracked_wallets(ws, us) ==
    RowsById({ r \in ws : r.is_active /\ r.user_id \in us })

\* SELECT last_processed_block ... WHERE wallet_address = ? AND is_active = 1;
\* fetchone(); "if row else 0"
db_get_last_processed_block(ws, addr) ==
    LET m == { r \in ws : r.wallet_address = addr /\ r.is_active }
    IN  IF m = {} THEN 0 ELSE RowsById(m)[1].last_processed_block

\* UPDATE wallets SET last_processed_block = ? WHERE wallet_address = ? AND
\* is_active = 1
db_update_last_processed_block(ws, addr, block_number) ==
    { IF r.wallet_address = addr /\ r.is_active
      THEN [r EXCEPT !.last_processed_block = block_number] ELSE r : r \in ws }

\* the values the tuple passed to cursor.execute binds
SaveBindings ==
    << "wallet_address", "tx_hash", "tx_type", "from_address", "to_address",
       "value", "token_address", "token_symbol", "token_name", "token_id",
       "block_number", "gas_used" >>

\* INSERT OR IGNORE under the UNIQUE(tx_hash) constraint, as it would run
\* were every placeholder bound
InsertOrIgnore(table, addr, tx_hash, tx_type) ==
    IF \E i \in 1..Len(table) : table[i].tx_hash = tx_hash
    THEN table
    ELSE Append(table, [wallet_address |-> addr, tx_hash |-> tx_hash,
                        tx_type |-> tx_type])

\* a save_transaction that binds every placeholder but inserts with a plain
\* INSERT into a table without the UNIQUE(tx_hash) constraint
save_transaction_plain(table, addr, tx_hash, tx_type) ==
    [ok |-> TRUE,
     table |-> Append(table, [wallet_address |-> addr, tx_hash |-> tx_hash,
                              tx_type |-> tx_type])]

\* save_transaction: sqlite3 raises ProgrammingError ("Incorrect number of
\* bindings supplied") unless the tuple binds every placeholder; the except
\* clause logs it and returns False.  The result is [ok, table].
save_transaction(table, addr, tx_hash, tx_type) ==
    IF Len(SaveBindings) # NumPlaceholders
    THEN [ok |-> FALSE, table |-> table]
    ELSE [ok |-> TRUE, table |-> InsertOrIgnore(table, addr, tx_hash, tx_type)]

\* balance_history rows: [wallet_address, balance, block_number, created_at];
\* created_at is CURRENT_TIMESTAMP, a whole second
NoBalance == -1

RowsOf(bh, addr) == { i \in 1..Len(bh) : bh[i].wallet_address = addr }

\* get_balance: SELECT balance ... ORDER BY created_at DESC LIMIT 1.  Among
\* rows of the same second the order is not specified, so the result is any
\* of them: the set of the balances the query can return, {NoBalance} when
\* there is no row (None).
db_get_balance(bh, addr) ==
    LET idx == RowsOf(bh, addr)
    IN  IF idx = {} THEN {NoBalance}
        ELSE { bh[i].balance :
                 i \in { k \in idx : \A j \in idx :
                                       bh[j].created_at <= bh[k].created_at } }

\* the balance passed to the most recent save_balance call for addr
LatestSaved(bh, addr) ==
    LET idx == RowsOf(bh, addr)
    IN  IF idx = {} THEN NoBalance
        ELSE bh[CHOOSE i \in idx : \A j \in idx : j <= i].balance

db_save_balance(bh, addr, balance, block_number, created_at) ==
    Append(bh, [wallet_address |-> addr, balance |-> balance,
                block_number |-> block_number, created_at |-> created_at])

\* a second later than every row written so far
RECURSIVE NextSecond(_)
NextSecond(bh) ==
    IF bh = <<>> THEN 1
    ELSE Max(NextSecond(SubSeq(bh, 1, Len(bh) - 1)), bh[Len(bh)].created_at + 1)

\* The failures check_balance_changes can meet: w3.eth.get_balance raises
\* ("chain"), get_balance returns None on a store error ("read"), the
\* delivery raises ("notify"), save_balance swallows a store error ("save").
BalanceFailChoices(old, cur) ==
    {"chain", "read"} \cup
    (IF old # NoBalance /\ cur # old THEN {"notify"} ELSE {}) \cup
    (IF old = NoBalance \/ cur # old THEN {"save"} ELSE {})

\* a check_balance_changes that returns at once when there is no snapshot
check_balance_changes_skipfirst(bh, addr, cur, old, fail, block_number, created_at) ==
    IF fail = "chain" \/ old = NoBalance \/ cur = old
    THEN [notified |-> 0, saved |-> 0, bh |-> bh]
    ELSE [notified |-> 1, saved |-> 1,
          bh |-> db_save_balance(bh, addr, cur, block_number, created_at)]

\* check_balance_changes (main.py:217-244) with current balance cur and
\* get_balance result old: what it delivers and stores
check_balance_changes(bh, addr, cur, old, fail, block_number, created_at) ==
    LET stored == [notified |-> 0, saved |-> 1,
                   bh |-> db_save_balance(bh, addr, cur, block_number, created_at)]
        nothing == [notified |-> 0, saved |-> 0, bh |-> bh]
    IN  IF fail = "chain" THEN nothing
        ELSE IF old = NoBalance
             THEN (IF fail = "save" THEN nothing ELSE stored)
             ELSE IF cur # old
                  THEN (IF fail = "notify" THEN nothing
                        ELSE IF fail = "save"
                             THEN [nothing EXCEPT !.notified = 1]
                             ELSE [stored EXCEPT !.notified = 1])
                  ELSE nothing

\* ------------------------------------------------------------- scanners
\* An activity event is identified by its kind and its transaction hash.
Event(type, hash) == [type |-> type, hash |-> hash]

BlockScanners == {"native", "contract_interaction", "contract_deployment"}
LogScanners == {"erc20", "erc721", "erc1155"}

\* main.py:463  the names check_contract_interactions leaves to the transfer
\* scanners
ExcludedFunctions_short == { <<"transfer(address,uint256)">> }

ExcludedFunctions ==
    { <<"transfer(address,uint256)">>,
      <<"transferFrom(address,address,uint256)">> }

\* a native loop that does not look at the value
Qualifies_anyvalue(s, wallet, tx) ==
    CASE s = "native" ->
           tx.from = wallet \/ tx.to = wallet
      [] s = "contract_interaction" ->
           /\ tx.from = wallet
           /\ tx.input.len > 2
           /\ tx.input.len > SelectorChars
           /\ get_function_name(tx.input) \notin ExcludedFunctions
      [] s = "contract_deployment" ->
           tx.from = wallet /\ tx.to = NoAddr

\* the transactions for which a block scanner goes on to fetch the receipt
Qualifies(s, wallet, tx) ==
    CASE s = "native" ->
           (tx.from = wallet \/ tx.to = wallet) /\ tx.value > 0
      [] s = "contract_interaction" ->
           /\ tx.from = wallet
           /\ tx.input.len > 2
           /\ tx.input.len > SelectorChars
           /\ get_function_name(tx.input) \notin ExcludedFunctions
      [] s = "contract_deployment" ->
           tx.from = wallet /\ tx.to = NoAddr

\* a deployment scanner that does not look at the receipt's contractAddress
Emits_noreceipt(s, wallet, tx) == Qualifies(s, wallet, tx)

\* ... and those for which it then sends a message
Emits(s, wallet, tx) ==
    /\ Qualifies(s, wallet, tx)
    /\ s = "contract_deployment" => tx.created # NoAddr

\* the scanners whose loop body calls db.save_transaction
Saves(s) == s \in {"native", "erc20", "erc721", "contract_interaction"}

\* A failure a block scanner can meet in block b: get_block raises (at = 0),
\* or the receipt fetch or the delivery for the transaction at index `at`
\* raises.  Only blocks that hold transactions, and the last block of the
\* range, are told apart.
BlockFailChoices(s, wallet, from_block, to_block) ==
    LET bs == { b \in Blocks(from_block, to_block) : TxsOf(b) # <<>> }
                \cup {to_block}
    IN  { [b |-> b, at |-> 0, kind |-> "block"] : b \in bs } \cup
        UNION { { [b |-> b, at |-> i, kind |-> "receipt"] :
                    i \in { j \in 1..Len(TxsOf(b)) :
                              Qualifies(s, wallet, TxsOf(b)[j]) } } : b \in bs } \cup
        UNION { { [b |-> b, at |-> i, kind |-> "notify"] :
                    i \in { j \in 1..Len(TxsOf(b)) :
                              Emits(s, wallet, TxsOf(b)[j]) } } : b \in bs }

\* where the try-block of block b is left: 0 when get_block raises (as it
\* does for a negative block number), Len+1 when it runs to its end
FailPos(b, F) ==
    IF b < 0 THEN 0
    ELSE IF \E f \in F : f.b = b
         THEN (CHOOSE f \in F : f.b = b).at
         ELSE Len(TxsOf(b)) + 1

\* the events a block scanner delivers over the range: in each block the
\* matching transactions before the point where the block's try is left
BlockScan(s, wallet, from_block, to_block, F) ==
    UNION { { Event(s, TxsOf(b)[i].hash) :
                i \in { j \in 1..Len(TxsOf(b)) :
                          j < FailPos(b, F) /\ Emits(s, wallet, TxsOf(b)[j]) } }
            : b \in Blocks(from_block, to_block) }

BlockScanFailed(from_block, F) == F # {} \/ from_block < 0

\* w3.eth.get_logs({'fromBlock', 'toBlock', 'topics': [sig]})
get_logs(from_block, to_block, sig) ==
    UNION { { l \in LogsOf(b) : l.topics[1] = sig } :
            b \in Blocks(from_block, to_block) }

LogSig(s) == IF s = "erc1155" THEN TRANSFER_SINGLE_SIG ELSE TRANSFER_SIG

\* the per-log try of a log scanner decodes without raising
Decodes(s, l) ==
    CASE s = "erc20" -> Len(l.topics) >= 3 /\ l.data # <<>>
      [] s = "erc721" -> Len(l.topics) >= 4
      [] s = "erc1155" -> Len(l.topics) >= 4 /\ Len(l.data) >= 2

\* from_addr / to_addr of the decoded log
LogFrom(s, l) == IF s = "erc1155" THEN l.topics[3] ELSE l.topics[2]
LogTo(s, l) == IF s = "erc1155" THEN l.topics[4] ELSE l.topics[3]

LogMatches(s, wallet, l) ==
    Decodes(s, l) /\ (LogFrom(s, l) = wallet \/ LogTo(s, l) = wallet)

\* A failure a log scanner can meet: get_logs raises (nothing is processed),
\* or the delivery for one matching log raises (that log alone is dropped).
LogFailChoices(s, wallet, from_block, to_block) ==
    { [kind |-> "logs", hash |-> <<0, 0>>] } \cup
    { [kind |-> "notify", hash |-> l.hash] :
        l \in { m \in get_logs(Max(from_block, 0), to_block, LogSig(s)) :
                  LogMatches(s, wallet, m) } }

\* get_logs raises for a negative fromBlock
LogQueryFailed(from_block, F) ==
    from_block < 0 \/ \E f \in F : f.kind = "logs"

\* a log scanner whose loop is left at the first log that does not decode
LogScan_abort(s, wallet, from_block, to_block, F) ==
    IF LogQueryFailed(from_block, F) THEN {}
    ELSE LET logs == get_logs(from_block, to_block, LogSig(s))
         IN  { Event(s, l.hash) :
                 l \in { m \in logs :
                           /\ LogMatches(s, wallet, m)
                           /\ ~\E f \in F : f.kind = "notify" /\ f.hash = m.hash
                           /\ \A q \in logs :
                                  ~Decodes(s, q) =>
                                      \/ m.hash[1] < q.hash[1]
                                      \/ m.hash[1] = q.hash[1] /\ m.hash[2] < q.hash[2] } }

\* the for loop of a log scanner: a log whose decoding raises is logged and
\* skipped by the try of the loop body (main.py:310-312, 380-382, 437-439)
LogScan(s, wallet, from_block, to_block, F) ==
    IF LogQueryFailed(from_block, F) THEN {}
    ELSE { Event(s, l.hash) :
             l \in { m \in get_logs(from_block, to_block, LogSig(s)) :
                       /\ LogMatches(s, wallet, m)
                       /\ ~\E f \in F : f.kind = "notify" /\ f.hash = m.hash } }

LogScanFailed(from_block, F) == F # {} \/ from_block < 0

\* the events of a set in block order
RECURSIVE InOrder(_)
InOrder(evs) ==
    IF evs = {} THEN <<>>
    ELSE LET lo == CHOOSE e \in evs : \A q \in evs :
                     \/ e.hash[1] < q.hash[1]
                     \/ e.hash[1] = q.hash[1] /\ e.hash[2] <= q.hash[2]
         IN  <<lo>> \o InOrder(evs \ {lo})

\* db.save_transaction for each delivered event, in order
RECURSIVE SaveAll(_, _, _)
SaveAll(table, addr, evs) ==
    IF evs = <<>> THEN table
    ELSE SaveAll(save_transaction(table, addr, Head(evs).hash, Head(evs).type).table,
                 addr, Tail(evs))

\* ------------------------------------------------------ token metadata
\* the contracts get_token_info is asked about
T2 == "k2"
Tokens == {K, T2}

\* what name(), symbol() and decimals() of a contract return when they answer
Meta(t) ==
    IF t = K THEN [name |-> "Kay", symbol |-> "KAY", decimals |-> 6]
    ELSE [name |-> "Art", symbol |-> "ART", decimals |-> 2]

\* the reads of the two probes, in call order
ERC20_READS == <<"name", "symbol", "decimals">>
ERC721_READS == <<"name", "symbol">>

\* which contract calls answer during one resolution: one flag per call of
\* each probe (a call that raises is FALSE)
Answers ==
    [erc20 : [{"name", "symbol", "decimals"} -> BOOLEAN],
     erc721 : [{"name", "symbol"} -> BOOLEAN]]

AllOk(fns, ok) == \A i \in 1..Len(fns) : ok[fns[i]]

\* the calls of a probe that are made: up to and including the first that
\* raises
RECURSIVE CallsMade(_, _, _)
CallsMade(abi, fns, ok) ==
    IF fns = <<>> THEN <<>>
    ELSE IF ok[Head(fns)]
         THEN << <<abi, Head(fns)>> >> \o CallsMade(abi, Tail(fns), ok)
         ELSE << <<abi, Head(fns)>> >>

\* the contract calls of one get_token_info call, in order
token_info_calls(t, a) ==
    CallsMade("erc20", ERC20_READS, a.erc20) \o
    (IF AllOk(ERC20_READS, a.erc20) THEN <<>>
     ELSE CallsMade("erc721", ERC721_READS, a.erc721))

\* a get_token_info that probes the NFT reads first
get_token_info_nftfirst(t, a) ==
    IF AllOk(ERC721_READS, a.erc721)
    THEN [name |-> Meta(t).name, symbol |-> Meta(t).symbol, decimals |-> 0,
          type |-> "NFT"]
    ELSE IF AllOk(ERC20_READS, a.erc20)
         THEN [name |-> Meta(t).name, symbol |-> Meta(t).symbol,
               decimals |-> Meta(t).decimals, type |-> ""]
         ELSE [name |-> "Unknown", symbol |-> "UNK", decimals |-> 18,
               type |-> ""]

\* get_token_info, main.py:32-47: the try with the ERC-20 reads, inside its
\* except the try with the ERC-721 reads, inside that except the fallback
get_token_info(t, a) ==
    IF AllOk(ERC20_READS, a.erc20)
    THEN [name |-> Meta(t).name, symbol |-> Meta(t).symbol,
          decimals |-> Meta(t).decimals, type |-> ""]
    ELSE IF AllOk(ERC721_READS, a.erc721)
         THEN [name |-> Meta(t).name, symbol |-> Meta(t).symbol,
               decimals |-> 0, type |-> "NFT"]
         ELSE [name |-> "Unknown", symbol |-> "UNK", decimals |-> 18,
               type |-> ""]

NoResult == [name |-> "", symbol |-> "", decimals |-> 0, type |-> "none"]

NoTokenLog ==
    [called |-> FALSE, token |-> NoAddr, answers |-> <<>>, result |-> NoResult,
     calls |-> <<>>]

\* ----------------------------------------------------- range resolution
\* check_wallet_activity, lines 567-572
resolve_range(last_block, current_block) ==
    LET lb == IF last_block = 0 THEN current_block - BootstrapWindow
              ELSE last_block
    IN  [from_block |-> lb + 1, to_block |-> current_block]

\* an emptiness test that is off by one
IsEmptyRange_off(from_block, to_block) == from_block > to_block + 1

\* line 574: if from_block > to_block
IsEmptyRange(from_block, to_block) == from_block > to_block

\* ------------------------------------------------------------------ state
VARIABLES
    head,             \* w3.eth.block_number
    users,            \* user_ids of the users table (each has a chat_id)
    wallets,          \* rows of the wallets table
    nextId,           \* next AUTOINCREMENT id of wallets
    transactions,     \* rows of the transactions table, in insertion order
    balance_history,  \* rows of the balance_history table, in insertion order
    sent,             \* messages delivered to the chat, counted per event
    queue,            \* monitor_wallets: the wallets still to visit in this pass
    pc,               \* where the monitoring job stands
    cyc,              \* locals of the check_wallet_activity call in progress
    prev,             \* summary of the last completed check_wallet_activity call
    firstScanned,     \* from_block of the first scan that ran to its end, if any
    lastSave,         \* the last db.save_transaction call and what it did
    faults,           \* collaborator failures so far
    cmds,             \* user commands so far
    now,              \* the wall clock, in seconds
    bal,              \* the last check_balance_changes call and what it did
    passLog,          \* the monitor_wallets pass in progress
    tokenLog,         \* the last get_token_info call and what it did
    probes,           \* per contract, the get_token_info calls that went on chain
    firstResult,      \* per contract, the result of its first get_token_info call
    addedAt,          \* per address, the head at its last /addwallet
    steps,            \* the deliveries and store writes of the last scanner run, in order
    delivered         \* the activity events delivered so far, with the owner they went to

vars == << head, users, wallets, nextId, transactions, balance_history, sent,
           queue, pc, cyc, prev, firstScanned, lastSave, faults, cmds,
           now, bal, passLog, tokenLog, probes, firstResult, addedAt, steps,
           delivered >>

\* what the token metadata resolution keeps
tokVars == << tokenLog, probes, firstResult >>

NoCycle ==
    [active |-> FALSE, wallet |-> NoAddr, user |-> NoAddr, stored |-> 0,
     read |-> 0, current_block |-> 0, from_block |-> 0, to_block |-> 0,
     ran |-> {}, failed |-> {}, bad |-> {}, notified |-> {},
     dropped |-> {}, balanceChecked |-> FALSE]

NoPrev ==
    [kind |-> "none", wallet |-> NoAddr, stored |-> 0, read |-> 0,
     current_block |-> 0, from_block |-> 0, to_block |-> 0,
     ran |-> {}, failed |-> {}, bad |-> {}, notified |-> {},
     balanceChecked |-> FALSE, wrote |-> FALSE, before |-> 0, after |-> 0,
     txs |-> <<>>, rerun |-> FALSE, txsBefore |-> <<>>]

NoSave == [called |-> FALSE, hash |-> <<0, 0>>, fresh |-> FALSE, ok |-> FALSE,
           stored |-> FALSE]

\* latest / after: the balance last saved before / after the call; prevCur:
\* the balance the call before observed, if no /addwallet came in between
NoBal == [checked |-> FALSE, fail |-> "none", old |-> NoBalance,
          cur |-> NoBalance, latest |-> NoBalance, after |-> NoBalance,
          prevCur |-> NoBalance, cut |-> FALSE,
          notified |-> 0, saved |-> 0, at |-> 0]

NoPass == [planned |-> {}, visited |-> {}, failed |-> {}]

NotAdded == -1

Init ==
    /\ head \in InitHeads
    /\ users = {}
    /\ wallets = {}
    /\ nextId = 1
    /\ transactions = <<>>
    /\ balance_history = <<>>
    /\ sent = << >>
    /\ queue = <<>>
    /\ pc = "idle"
    /\ cyc = NoCycle
    /\ prev = NoPrev
    /\ firstScanned = {}
    /\ lastSave = NoSave
    /\ faults = 0
    /\ cmds = 0
    /\ now = 0
    /\ bal = NoBal
    /\ passLog = NoPass
    /\ tokenLog = NoTokenLog
    /\ probes = [t \in Tokens |-> 0]
    /\ firstResult = [t \in Tokens |-> NoResult]
    /\ addedAt = [a \in {W, X} |-> NotAdded]
    /\ steps = <<>>
    /\ delivered = {}

Bump(f, evs) ==
    [e \in DOMAIN f \cup evs |->
        (IF e \in DOMAIN f THEN f[e] ELSE 0) + (IF e \in evs THEN 1 ELSE 0)]

Hashes(table) == { table[i].tx_hash : i \in 1..Len(table) }

\* the chain grows by one block (between two passes of the monitoring job)
NewBlock ==
    /\ pc = "idle"
    /\ Off(head) < MaxGrowth
    /\ head' = head + 1
    /\ UNCHANGED << users, wallets, nextId, transactions, balance_history, sent, delivered,
                    queue, pc, cyc, prev, firstScanned, lastSave, faults, cmds >>
    /\ UNCHANGED << now, bal, passLog, tokVars, addedAt, steps >>

\* /addwallet: add_user, then db.add_wallet(address, user, current_block) and
\* the initial balance snapshot.  Commands are handled between two passes of
\* the monitoring job; here the snapshot is stored, in a second of its own.
AddWallet ==
    /\ pc = "idle"
    /\ cmds < MaxCmds
    /\ cmds' = cmds + 1
    /\ users' = users \cup {U1}
    /\ wallets' = db_add_wallet(wallets, nextId, W, U1, head)
    /\ nextId' = nextId + 1
    /\ balance_history' = db_save_balance(balance_history, W, BalanceAt(head),
                                          head, NextSecond(balance_history))
    /\ addedAt' = [addedAt EXCEPT ![W] = head]
    /\ UNCHANGED << head, transactions, sent, delivered, queue, pc, cyc, prev, firstScanned,
                    lastSave, faults >>
    /\ UNCHANGED << now, bal, passLog, tokVars, steps >>

\* /removewallet for a wallet of the user's list
RemoveWallet ==
    /\ pc = "idle"
    /\ cmds < MaxCmds
    /\ \E r \in wallets : r.wallet_address = W /\ r.user_id = U1
    /\ cmds' = cmds + 1
    /\ wallets' = db_remove_wallet(wallets, W, U1)
    /\ UNCHANGED << head, users, nextId, transactions, balance_history, sent, delivered,
                    queue, pc, cyc, prev, firstScanned, lastSave, faults >>
    /\ UNCHANGED << now, bal, passLog, tokVars, addedAt, steps >>

\* the job queue fires monitor_wallets: it reads the tracked wallets
PassStart ==
    /\ pc = "idle"
    /\ queue' = db_get_all_tracked_wallets(wallets, users)
    /\ passLog' = [NoPass EXCEPT
                     !.planned = { queue'[i].wallet_address : i \in 1..Len(queue') }]
    /\ pc' = "pass"
    /\ UNCHANGED << head, users, wallets, nextId, transactions, balance_history,
                    sent, delivered, cyc, prev, firstScanned, lastSave, faults, cmds >>
    /\ UNCHANGED << now, bal, tokVars, addedAt, steps >>

PassDone ==
    /\ pc = "pass"
    /\ queue = <<>>
    /\ pc' = "idle"
    /\ passLog' = NoPass
    /\ bal' = NoBal
    /\ UNCHANGED << head, users, wallets, nextId, transactions, balance_history,
                    sent, delivered, queue, cyc, prev, firstScanned, lastSave, faults, cmds >>
    /\ UNCHANGED << now, tokVars, addedAt, steps >>

\* a monitor_wallets that gives up the pass when a call failed
RestAfterFailure_abort(q) == <<>>

\* monitor_wallets, lines 642-651: the for loop goes on with the next wallet
\* whatever became of the call for this one
RestAfterFailure(q) == Tail(q)

\* a failure was met while the wallet was processed
Failed(log, wallet, failed) ==
    IF failed THEN [log EXCEPT !.failed = @ \cup {wallet}] ELSE log

\* check_wallet_activity raises at w3.eth.block_number: the outer except logs
\* it and the cycle is over
CycleHeadFails ==
    /\ pc = "pass"
    /\ queue # <<>>
    /\ faults < MaxFaults
    /\ faults' = faults + 1
    /\ queue' = RestAfterFailure(queue)
    /\ passLog' = [passLog EXCEPT
                     !.visited = @ \cup {Head(queue).wallet_address},
                     !.failed = @ \cup {Head(queue).wallet_address}]
    /\ UNCHANGED << head, users, wallets, nextId, transactions, balance_history,
                    sent, delivered, pc, cyc, prev, firstScanned, lastSave, cmds >>
    /\ UNCHANGED << now, bal, tokVars, addedAt, steps >>

\* check_wallet_activity, lines 564-578: the head and the cursor are read
\* (a failed cursor read returns 0) and the range is resolved
CycleStart ==
    /\ pc = "pass"
    /\ queue # <<>>
    /\ \E readFails \in BOOLEAN :
        LET w == Head(queue).wallet_address
            stored == db_get_last_processed_block(wallets, w)
            read == IF readFails THEN 0 ELSE stored
            rng == resolve_range(read, head)
            empty == IsEmptyRange(rng.from_block, rng.to_block)
        IN  /\ readFails => faults < MaxFaults
            /\ faults' = IF readFails THEN faults + 1 ELSE faults
            /\ cyc' = [NoCycle EXCEPT !.active = TRUE, !.wallet = w,
                                      !.user = Head(queue).user_id,
                                      !.stored = stored, !.read = read,
                                      !.current_block = head,
                                      !.from_block = rng.from_block,
                                      !.to_block = rng.to_block]
            /\ passLog' = Failed([passLog EXCEPT !.visited = @ \cup {w}], w,
                                 readFails)
            /\ pc' = IF empty THEN "balance" ELSE "native"
    /\ queue' = Tail(queue)
    /\ UNCHANGED << head, users, wallets, nextId, transactions, balance_history,
                    sent, delivered, prev, firstScanned, lastSave, cmds >>
    /\ UNCHANGED << now, bal, tokVars, addedAt, steps >>

\* what the last of the db.save_transaction calls of a scanner run did
SaveRecord(table, addr, evs) ==
    LET n == Len(evs)
        tb == SaveAll(table, addr, SubSeq(evs, 1, n - 1))
        r == save_transaction(tb, addr, evs[n].hash, evs[n].type)
    IN  [called |-> TRUE, hash |-> evs[n].hash,
         fresh |-> evs[n].hash \notin Hashes(tb), ok |-> r.ok,
         stored |-> evs[n].hash \in Hashes(r.table)]

\* the bookkeeping of one scanner run
Ran(s, evs, failed, lost, dropped) ==
    [cyc EXCEPT !.ran = @ \cup {s},
                !.failed = IF failed THEN @ \cup {s} ELSE @,
                !.bad = @ \cup lost,
                !.notified = @ \cup evs,
                !.dropped = @ \cup dropped]

\* the loop body of a scanner for one event it reports: the message is sent
\* (main.py:599, 287, 358, 430, 484, 546) and then, in four of the six
\* scanners, db.save_transaction is called (main.py:605, 294, 364, 490)
EventSteps(s, e) ==
    << [op |-> "notify", ev |-> e] >> \o
    (IF Saves(s) THEN << [op |-> "save", ev |-> e] >> ELSE <<>>)

\* the steps of a scanner run for the events it delivered, in order
RECURSIVE StepsOf(_, _)
StepsOf(s, evs) ==
    IF evs = <<>> THEN <<>>
    ELSE EventSteps(s, Head(evs)) \o StepsOf(s, Tail(evs))

\* a scanner whose failure propagates and ends the scanning of the cycle
Scanned_abort(s, evs, failed, next) ==
    /\ sent' = Bump(sent, evs)
    /\ delivered' = delivered \cup { <<cyc.user, e>> : e \in evs }
    /\ transactions' = IF Saves(s)
                       THEN SaveAll(transactions, cyc.wallet, InOrder(evs))
                       ELSE transactions
    /\ lastSave' = IF Saves(s) /\ evs # {}
                   THEN SaveRecord(transactions, cyc.wallet, InOrder(evs))
                   ELSE lastSave
    /\ passLog' = Failed(passLog, cyc.wallet, failed)
    /\ steps' = StepsOf(s, InOrder(evs))
    /\ pc' = IF failed THEN "balance" ELSE next

\* the effect of one scanner run that delivered evs, failed or not: the
\* scanner has caught its exceptions and the next one is called
Scanned(s, evs, failed, next) ==
    /\ sent' = Bump(sent, evs)
    /\ delivered' = delivered \cup { <<cyc.user, e>> : e \in evs }
    /\ transactions' = IF Saves(s)
                       THEN SaveAll(transactions, cyc.wallet, InOrder(evs))
                       ELSE transactions
    /\ lastSave' = IF Saves(s) /\ evs # {}
                   THEN SaveRecord(transactions, cyc.wallet, InOrder(evs))
                   ELSE lastSave
    /\ passLog' = Failed(passLog, cyc.wallet, failed)
    /\ steps' = StepsOf(s, InOrder(evs))
    /\ pc' = next

\* the native loop of check_wallet_activity (lines 581-621),
\* check_contract_interactions and check_internal_transactions
ScanBlocks(s, next) ==
    /\ pc = s
    /\ \E F \in {{}} \cup { {f} : f \in BlockFailChoices(s, cyc.wallet,
                                          cyc.from_block, cyc.to_block) } :
        LET evs == BlockScan(s, cyc.wallet, cyc.from_block, cyc.to_block, F)
            failed == BlockScanFailed(cyc.from_block, F)
        IN  /\ F # {} => faults < MaxFaults
            /\ faults' = IF F # {} THEN faults + 1 ELSE faults
            /\ Scanned(s, evs, failed, next)
            /\ cyc' = Ran(s, evs, failed, { f.b : f \in F },
                          { Event(s, TxsOf(f.b)[f.at].hash) :
                              f \in { g \in F : g.kind = "notify" } })
    /\ UNCHANGED << head, users, wallets, nextId, balance_history, queue, prev,
                    firstScanned, cmds >>
    /\ UNCHANGED << now, bal, tokVars, addedAt >>

\* check_erc20_transfers, check_erc721_transfers, check_erc1155_transfers
ScanLogs(s, next) ==
    /\ pc = s
    /\ \E F \in {{}} \cup { {f} : f \in LogFailChoices(s, cyc.wallet,
                                          cyc.from_block, cyc.to_block) } :
        LET evs == LogScan(s, cyc.wallet, cyc.from_block, cyc.to_block, F)
            failed == LogScanFailed(cyc.from_block, F)
        IN  /\ F # {} => faults < MaxFaults
            /\ faults' = IF F # {} THEN faults + 1 ELSE faults
            /\ Scanned(s, evs, failed, next)
            /\ cyc' = Ran(s, evs, failed,
                          IF LogQueryFailed(cyc.from_block, F)
                          THEN Max(cyc.from_block, 0)..cyc.to_block
                          ELSE { f.hash[1] : f \in F },
                          { Event(s, f.hash) :
                              f \in { g \in F : g.kind = "notify" } })
    /\ UNCHANGED << head, users, wallets, nextId, balance_history, queue, prev,
                    firstScanned, cmds >>
    /\ UNCHANGED << now, bal, tokVars, addedAt >>

\* a cycle that goes from the native loop straight to the balance check and
\* the cursor update
ScanNative_skip == ScanBlocks("native", "balance")

ScanNative == ScanBlocks("native", "erc20")
ScanErc20 == ScanLogs("erc20", "erc721")
ScanErc721 == ScanLogs("erc721", "erc1155")
ScanErc1155 == ScanLogs("erc1155", "contract_interaction")
ScanInteractions == ScanBlocks("contract_interaction", "contract_deployment")
ScanDeployments == ScanBlocks("contract_deployment", "balance")

\* the summary kept of a completed cycle
Summary(kind, wrote, before, after) ==
    [kind |-> kind, wallet |-> cyc.wallet, stored |-> cyc.stored,
     read |-> cyc.read, current_block |-> cyc.current_block,
     from_block |-> cyc.from_block, to_block |-> cyc.to_block,
     ran |-> cyc.ran, failed |-> cyc.failed, bad |-> cyc.bad,
     notified |-> cyc.notified,
     balanceChecked |-> TRUE,
     wrote |-> wrote, before |-> before, after |-> after,
     txs |-> transactions,
     rerun |-> /\ kind = "scan"
               /\ prev.kind = "scan"
               /\ prev.wallet = cyc.wallet
               /\ prev.from_block = cyc.from_block
               /\ prev.to_block = cyc.to_block,
     txsBefore |-> prev.txs]

\* one call of check_balance_changes for addr at second t: the balance is
\* read from the chain, the snapshot from the store; kinds are the failures
\* told apart
CheckBalance(addr, t, kinds) ==
    \E old \in db_get_balance(balance_history, addr) :
    \E fail \in {"none"} \cup (BalanceFailChoices(old, BalanceAt(head)) \cap kinds) :
        LET cur == BalanceAt(head)
            seen == IF fail = "read" THEN NoBalance ELSE old
            r == check_balance_changes(balance_history, addr, cur, seen, fail,
                                       head, t)
        IN  /\ fail # "none" => faults < MaxFaults
            /\ faults' = IF fail # "none" THEN faults + 1 ELSE faults
            /\ sent' = IF r.notified = 1
                       THEN Bump(sent, {Event("balance", <<seen, cur>>)})
                       ELSE sent
            /\ balance_history' = r.bh
            /\ passLog' = Failed(passLog, addr, fail # "none")
            /\ bal' = [checked |-> TRUE, fail |-> fail, old |-> seen,
                       cur |-> IF fail = "chain" THEN NoBalance ELSE cur,
                       latest |-> LatestSaved(balance_history, addr),
                       after |-> LatestSaved(r.bh, addr),
                       prevCur |-> IF bal.cut THEN NoBalance ELSE bal.cur,
                       cut |-> FALSE,
                       notified |-> r.notified, saved |-> r.saved, at |-> t]

\* check_balance_changes; after it an empty-range cycle returns (line 576)
\* and any other goes on to the cursor update.  The snapshot, if one is
\* stored, is stored in a second of its own; the failures of the chain read
\* and of the delivery are told apart.
BalanceCheck ==
    /\ pc = "balance"
    /\ CheckBalance(cyc.wallet, NextSecond(balance_history), {"chain", "notify"})
    /\ IF IsEmptyRange(cyc.from_block, cyc.to_block)
       THEN /\ prev' = Summary("empty", FALSE,
                               db_get_last_processed_block(wallets, cyc.wallet),
                               db_get_last_processed_block(wallets, cyc.wallet))
            /\ cyc' = NoCycle
            /\ pc' = "pass"
       ELSE /\ cyc' = [cyc EXCEPT !.balanceChecked = TRUE]
            /\ pc' = "advance"
            /\ prev' = prev
    /\ UNCHANGED << head, users, wallets, nextId, transactions, queue,
                    firstScanned, lastSave, cmds >>
    /\ UNCHANGED << now, tokVars, addedAt, steps, delivered >>

\* line 632: db.update_last_processed_block(wallet_address, to_block), which
\* swallows a store error
Advance ==
    /\ pc = "advance"
    /\ \E writeFails \in BOOLEAN :
        /\ writeFails => faults < MaxFaults
        /\ faults' = IF writeFails THEN faults + 1 ELSE faults
        /\ wallets' = IF writeFails THEN wallets
                      ELSE db_update_last_processed_block(wallets, cyc.wallet,
                                                          cyc.to_block)
        /\ prev' = Summary("scan", ~writeFails,
                           db_get_last_processed_block(wallets, cyc.wallet),
                           db_get_last_processed_block(wallets', cyc.wallet))
        /\ passLog' = Failed(passLog, cyc.wallet, writeFails)
    /\ firstScanned' = IF firstScanned # {} THEN firstScanned
                       ELSE {cyc.from_block}
    /\ cyc' = NoCycle
    /\ pc' = "pass"
    /\ UNCHANGED << head, users, nextId, transactions, balance_history, sent, delivered,
                    queue, lastSave, cmds >>
    /\ UNCHANGED << now, bal, tokVars, addedAt, steps >>

Next ==
    \/ NewBlock
    \/ AddWallet
    \/ RemoveWallet
    \/ PassStart
    \/ PassDone
    \/ CycleHeadFails
    \/ CycleStart
    \/ ScanNative
    \/ ScanErc20
    \/ ScanErc721
    \/ ScanErc1155
    \/ ScanInteractions
    \/ ScanDeployments
    \/ BalanceCheck
    \/ Advance

Spec == Init /\ [][Next]_vars

\* ------------------------------------------------------------- properties
\* every event the scanners emit for `wallet` in block b when nothing fails
Expected(wallet, b) ==
    UNION { BlockScan(s, wallet, b, b, {}) : s \in BlockScanners } \cup
    UNION { LogScan(s, wallet, b, b, {}) : s \in LogScanners }

NoDuplicateHash ==
    \A i, j \in 1..Len(transactions) :
        transactions[i].tx_hash = transactions[j].tx_hash => i = j

\* C1: a cycle over a non-empty range moves the cursor to to_block only if no
\* scanner hit a failure in that cycle; after a failure the cursor keeps its
\* value.
C1_AdvanceOnlyWithoutFailure ==
    (prev.kind = "scan" /\ prev.from_block >= 1 /\ prev.failed # {}) =>
        prev.after = prev.before

\* C2: every block from the first scanned block up to the cursor of a tracked
\* address has a persisted record for each activity of that address in it.
C2_BlocksUpToCursorPersisted ==
    \A r \in wallets : \A f \in firstScanned :
        (r.is_active /\ f >= 1) =>
            \A b \in f..r.last_processed_block :
                \A e \in Expected(r.wallet_address, b) :
                    e.hash \in Hashes(transactions)

\* C3: the values a cycle writes to the cursor never decrease, and every block
\* between the value stored before and the value written was scanned by every
\* scanner of the cycle.
C3_WrittenCursorMonotoneNoSkip ==
    (prev.kind = "scan" /\ prev.from_block >= 1 /\ prev.wrote) =>
        /\ prev.after >= prev.before
        /\ \A b \in (prev.before + 1)..prev.after :
              b >= prev.from_block /\ b \notin prev.bad

\* C4: for an address scanned before (stored cursor not 0) a cycle resolves
\* from_block = cursor + 1 and to_block = head, and its from_block is the
\* to_block of the cycle before plus one.
C4_RangeContinuesFromCursor ==
    (cyc.active /\ cyc.stored # 0) =>
        /\ cyc.from_block = cyc.stored + 1
        /\ cyc.to_block = cyc.current_block
        /\ (prev.kind # "none" /\ prev.wallet = cyc.wallet) =>
              cyc.from_block = prev.to_block + 1

\* C5: a cycle that runs over the same block range as the cycle before it
\* leaves the transactions table as that cycle left it, and no transaction
\* hash is stored twice.
C5_RerunAddsNoRecord ==
    /\ prev.rerun => prev.txs = prev.txsBefore
    /\ NoDuplicateHash

\* a second cycle over the same range has run and delivered events
C5_Witness == prev.rerun /\ prev.notified # {}

\* C6: save_transaction returns success and has the record stored after the
\* first write of a hash (and after a repeated one), and no two stored
\* records share a hash.
C6_SaveStoresAndSucceeds ==
    /\ lastSave.called => lastSave.ok /\ lastSave.stored
    /\ NoDuplicateHash

\* C7: every activity event delivered during a cycle is in the transactions
\* table, under its hash, when the cycle ends.
C7_NotifiedEventsPersisted ==
    (prev.kind = "scan" /\ prev.from_block >= 1) =>
        \A e \in prev.notified : e.type # "balance" => e.hash \in Hashes(prev.txs)

\* C8: no activity event is delivered to the owner more than once, whatever
\* ranges are scanned again.
C8_AtMostOneNotification ==
    \A e \in DOMAIN sent : e.type # "balance" => sent[e] <= 1

\* C9: with a cursor of 0 and head H the range is max(1, H - 100)..H.
C9_BootstrapRange ==
    (cyc.active /\ cyc.stored = 0 /\ cyc.read = 0) =>
        /\ cyc.from_block = Max(1, cyc.current_block - BootstrapWindow)
        /\ cyc.to_block = cyc.current_block

\* C10: a cycle whose range is empty runs no scanner, delivers and stores no
\* activity, goes straight to the balance check, and writes no cursor.
C10_EmptyRangeOnlyBalance ==
    /\ [](/\ (cyc.active /\ cyc.from_block > cyc.to_block) =>
                pc = "balance" /\ cyc.ran = {} /\ cyc.notified = {}
          /\ prev.kind = "empty" =>
                /\ prev.from_block > prev.to_block
                /\ prev.ran = {} /\ prev.notified = {}
                /\ prev.balanceChecked /\ ~prev.wrote)
    /\ [][(cyc.active /\ cyc.from_block > cyc.to_block /\ pc' # pc) =>
            /\ pc' = "pass" /\ prev'.kind = "empty"
            /\ wallets' = wallets
            /\ transactions' = transactions
            /\ \A e \in DOMAIN sent' :
                 e.type # "balance" => e \in DOMAIN sent /\ sent'[e] = sent[e]]_vars

\* an empty-range cycle has completed for a tracked wallet after a snapshot
\* was stored
C10_Witness ==
    /\ prev.kind = "empty"
    /\ prev.from_block = prev.stored + 1
    /\ prev.stored = prev.to_block
    /\ balance_history # <<>>

\* the Transfer log a delivered erc20 / erc721 event was decoded from
TransferLogOf(hash) ==
    CHOOSE l \in LogsOf(hash[1]) : l.hash = hash /\ l.topics[1] = TRANSFER_SIG

\* C11: a Transfer log is emitted as an ERC-20 transfer only if it has exactly
\* 3 topics and as an ERC-721 transfer only if it has exactly 4, whatever its
\* data holds; no log is emitted as both.
C11_ClassifiedByTopicCount ==
    faults = 0 =>
    \A e \in DOMAIN sent :
        /\ e.type = "erc20" =>
              /\ Len(TransferLogOf(e.hash).topics) = 3
              /\ Event("erc721", e.hash) \notin DOMAIN sent
        /\ e.type = "erc721" =>
              /\ Len(TransferLogOf(e.hash).topics) = 4
              /\ Event("erc20", e.hash) \notin DOMAIN sent

\* the transaction a delivered block-scanner event was built from
TxOf(hash) ==
    LET txs == TxsOf(hash[1])
    IN  txs[CHOOSE i \in 1..Len(txs) : txs[i].hash = hash]

\* C12: no transaction whose selector is that of transfer(address,uint256) or
\* transferFrom(address,address,uint256) is ever delivered as a contract
\* interaction.
C12_TransfersNotInteractions ==
    \A e \in DOMAIN sent :
        e.type = "contract_interaction" =>
            TxOf(e.hash).input.sel \notin {"0xa9059cbb", "0x23b872dd"}

\* check_contract_interactions has run to its end over a range that holds a
\* transfer and a transferFrom call sent by the wallet
C12_Witness ==
    /\ prev.kind = "scan"
    /\ "contract_interaction" \notin prev.failed
    /\ \A sel \in {"0xa9059cbb", "0x23b872dd"} :
          \E b \in prev.from_block..prev.to_block :
              \E i \in 1..Len(TxsOf(b)) :
                  /\ TxsOf(b)[i].from = prev.wallet
                  /\ TxsOf(b)[i].input.sel = sel

\* ---------------------------------------------------------------- C15
\* the events scanner s delivers over the range of a cycle when nothing fails
ExpectedOf(s, wallet, from_block, to_block) ==
    IF s \in BlockScanners
    THEN BlockScan(s, wallet, from_block, to_block, {})
    ELSE LogScan(s, wallet, from_block, to_block, {})

OfType(evs, s) == { e \in evs : e.type = s }

\* C15: whatever fails inside one scanner, each of the six scanners is run in
\* the cycle, and when the cycle has ended each scanner that met no failure
\* itself has delivered every event of the whole range.
C15_ScannerFailureContained ==
    /\ pc = "balance" /\ cyc.active /\ cyc.from_block <= cyc.to_block =>
          cyc.ran = BlockScanners \cup LogScanners
    /\ (prev.kind = "scan" /\ pc = "pass" /\ ~cyc.active) =>
          /\ prev.ran = BlockScanners \cup LogScanners
          /\ \A s \in prev.ran \ prev.failed :
                OfType(prev.notified, s) =
                    ExpectedOf(s, prev.wallet, prev.from_block, prev.to_block)

\* a cycle in which the native loop failed and a later scanner still delivered
\* an event
C15_Witness ==
    /\ prev.kind = "scan"
    /\ prev.from_block >= 1
    /\ prev.failed = {"native"}
    /\ OfType(prev.notified, "contract_interaction") # {}

\* ---------------------------------------------------------------- C17
\* C17: when the delivery for an event fails, the scanner still delivers every
\* other event of the range, and the cycle goes on to write the cursor.
C17_DeliveryFailureContained ==
    (pc = "advance" /\ cyc.from_block >= 1) =>
        \A d \in cyc.dropped :
            OfType(cyc.notified, d.type) =
                ExpectedOf(d.type, cyc.wallet, cyc.from_block, cyc.to_block) \ {d}

\* ---------------------------------------------------------------- C18
\* C18: an activity event whose delivery failed is in the transactions table
\* when the scanners are done, and a balance change whose delivery failed has
\* its snapshot stored.
C18_DeliveryFailureKeepsPersistence ==
    /\ (pc = "advance" /\ cyc.from_block >= 1) =>
          \A d \in cyc.dropped : d.hash \in Hashes(transactions)
    /\ (bal.checked /\ bal.fail = "notify") => bal.saved = 1

\* ------------------------------------------------- balance checks in time
\* The balance checks of one address against the wall clock: snapshots
\* written within the same second carry the same created_at, and the failures
\* of the store are told apart.

\* /addwallet (main.py:686-695) at the current second: the wallet row is
\* written, then the balance is read and the snapshot stored, unless
\* w3.eth.get_balance raises or save_balance swallows a store error
BalAdd ==
    /\ pc = "idle"
    /\ cmds < MaxCmds
    /\ cmds' = cmds + 1
    /\ users' = users \cup {U1}
    /\ wallets' = db_add_wallet(wallets, nextId, W, U1, head)
    /\ nextId' = nextId + 1
    /\ \E seeded \in BOOLEAN :
        /\ ~seeded => faults < MaxFaults
        /\ faults' = IF seeded THEN faults ELSE faults + 1
        /\ balance_history' =
             IF seeded
             THEN db_save_balance(balance_history, W, BalanceAt(head), head, now)
             ELSE balance_history
    /\ bal' = [bal EXCEPT !.cut = TRUE]
    /\ addedAt' = [addedAt EXCEPT ![W] = head]
    /\ UNCHANGED << head, transactions, sent, delivered, queue, pc, cyc, prev, firstScanned,
                    lastSave >>
    /\ UNCHANGED << now, passLog, tokVars, steps >>

\* a second passes
BalTick ==
    /\ pc = "idle"
    /\ now < MaxTime
    /\ now' = now + 1
    /\ UNCHANGED << head, users, wallets, nextId, transactions, balance_history,
                    sent, delivered, queue, pc, cyc, prev, firstScanned, lastSave, faults,
                    cmds >>
    /\ UNCHANGED << bal, passLog, tokVars, addedAt, steps >>

\* the balance check of a cycle for the tracked wallet (main.py:575 or 629);
\* two passes of the job are CHECK_INTERVAL seconds apart
BalCheck ==
    /\ pc = "idle"
    /\ db_get_all_tracked_wallets(wallets, users) # <<>>
    /\ bal.checked => bal.at < now
    /\ CheckBalance(W, now, {"chain", "read", "notify", "save"})
    /\ UNCHANGED << head, users, wallets, nextId, transactions, queue, pc, cyc,
                    prev, firstScanned, lastSave, cmds >>
    /\ UNCHANGED << now, tokVars, addedAt, steps, delivered >>

NextBalance ==
    \/ NewBlock
    \/ BalAdd
    \/ BalTick
    \/ BalCheck

SpecBalance == Init /\ [][NextBalance]_vars

\* C13: with one /addwallet and no failure, a check that observes the balance
\* of the latest snapshot delivers and stores nothing, a check that observes
\* the balance of the check before it delivers and stores nothing, and a
\* check that observes another balance than the check before it delivers one
\* alert and stores one snapshot.
C13_OneNotificationPerChange ==
    (bal.checked /\ faults = 0 /\ cmds = 1 /\ bal.latest # NoBalance) =>
        /\ bal.cur = bal.latest => bal.notified = 0 /\ bal.saved = 0
        /\ (bal.prevCur # NoBalance /\ bal.cur = bal.prevCur) =>
              bal.notified = 0 /\ bal.saved = 0
        /\ (bal.prevCur # NoBalance /\ bal.cur # bal.prevCur) =>
              bal.notified = 1 /\ bal.saved = 1

\* C14: a check that finds no snapshot of the address, and meets no failure,
\* stores a snapshot of the current balance and delivers nothing.
C14_FirstCheckSeedsSilently ==
    (bal.checked /\ bal.fail = "none" /\ bal.latest = NoBalance) =>
        /\ bal.notified = 0
        /\ bal.saved = 1
        /\ bal.after = bal.cur

\* the wallet was tracked without a snapshot (its seed had failed) and a
\* check has run
C14_Witness ==
    /\ bal.checked
    /\ bal.fail = "none"
    /\ bal.latest = NoBalance
    /\ LatestSaved(balance_history, W) = bal.cur


\* ------------------------------------------- token metadata resolutions
\* The scanners call get_token_info for the contract of every transfer log
\* they report (main.py:268, 308, 355). This specification follows the
\* resolutions of one process alone: which contract is asked, which of its
\* calls answer, what comes back.

Resolutions == probes[K] + probes[T2]

\* one call get_token_info(token_address)
Resolve ==
    /\ Resolutions < MaxResolutions
    /\ \E t \in Tokens, a \in Answers :
           LET info == get_token_info(t, a)
               calls == token_info_calls(t, a)
           IN  /\ tokenLog' = [called |-> TRUE, token |-> t, answers |-> a,
                               result |-> info, calls |-> calls]
               /\ probes' = [probes EXCEPT ![t] = @ + (IF calls = <<>> THEN 0 ELSE 1)]
               /\ firstResult' = [firstResult EXCEPT
                                     ![t] = IF @ = NoResult THEN info ELSE @]
    /\ UNCHANGED << head, users, wallets, nextId, transactions, balance_history,
                    sent, delivered, queue, pc, cyc, prev, firstScanned, lastSave, faults,
                    cmds, now, bal, passLog, addedAt, steps >>

NextToken == Resolve

SpecToken == Init /\ [][NextToken]_vars

\* C19: over the resolutions of one process a contract address is probed on
\* chain at most once, and every resolution of an address returns what the
\* first resolution of that address returned.
C19_ProbedAtMostOnce ==
    /\ \A t \in Tokens : probes[t] <= 1
    /\ tokenLog.called => tokenLog.result = firstResult[tokenLog.token]

\* C20: get_token_info returns the three ERC-20 reads when all three answer;
\* otherwise name and symbol with decimals 0 when the two NFT reads answer;
\* otherwise Unknown / UNK / 18. The ERC-20 reads are called first and the NFT
\* reads only after one of them failed; a result comes back in every case.
C20_ProbeOrder ==
    tokenLog.called =>
        LET t == tokenLog.token
            a == tokenLog.answers
            r == tokenLog.result
            c == tokenLog.calls
            fungible == a.erc20["name"] /\ a.erc20["symbol"] /\ a.erc20["decimals"]
            nft == a.erc721["name"] /\ a.erc721["symbol"]
        IN  /\ r # NoResult
            /\ c # <<>> /\ c[1] = <<"erc20", "name">>
            /\ \A i, j \in 1..Len(c) :
                   (c[i][1] = "erc20" /\ c[j][1] = "erc721") => i < j
            /\ fungible =>
                   /\ r.name = Meta(t).name /\ r.symbol = Meta(t).symbol
                   /\ r.decimals = Meta(t).decimals /\ r.type # "NFT"
                   /\ c = << <<"erc20", "name">>, <<"erc20", "symbol">>,
                             <<"erc20", "decimals">> >>
            /\ (~fungible /\ nft) =>
                   /\ r.name = Meta(t).name /\ r.symbol = Meta(t).symbol
                   /\ r.decimals = 0
                   /\ Len(c) >= 3
                   /\ c[Len(c) - 1] = <<"erc721", "name">>
                   /\ c[Len(c)] = <<"erc721", "symbol">>
            /\ (~fungible /\ ~nft) =>
                   /\ r.name = "Unknown" /\ r.symbol = "UNK" /\ r.decimals = 18
                   /\ \E i \in 1..Len(c) : c[i][1] = "erc721"

\* a contract whose decimals() raises while both NFT reads answer was resolved
C20_Witness ==
    /\ tokenLog.called
    /\ tokenLog.answers.erc20["name"] /\ tokenLog.answers.erc20["symbol"]
    /\ ~tokenLog.answers.erc20["decimals"]
    /\ tokenLog.answers.erc721["name"] /\ tokenLog.answers.erc721["symbol"]
    /\ tokenLog.result.type = "NFT"
    /\ Len(tokenLog.calls) = 5

\* ------------------------------------------------ a pass over two wallets
\* monitor_wallets (main.py:638-653) visits the tracked wallets one after the
\* other.  This specification tracks up to two addresses, W and X, and lets
\* the calls of a pass fail: the head read, the cursor read, a scanner, the
\* balance check, the cursor update.

Tracked == {W, X}

\* the last_processed_block of the rows of addr, by row id
CursorsOf(ws, addr) ==
    { <<r.id, r.last_processed_block>> : r \in { q \in ws : q.wallet_address = addr } }

\* /addwallet for an address not tracked yet, between two passes; W is the
\* first address the user adds, X the second
PassAdd ==
    /\ pc = "idle"
    /\ cmds < MaxCmds
    /\ \E a \in Tracked :
        /\ \A r \in wallets : r.wallet_address # a
        /\ a = X => \E r \in wallets : r.wallet_address = W
        /\ wallets' = db_add_wallet(wallets, nextId, a, U1, head)
        /\ balance_history' = db_save_balance(balance_history, a, BalanceAt(head),
                                              head, NextSecond(balance_history))
        /\ addedAt' = [addedAt EXCEPT ![a] = head]
    /\ cmds' = cmds + 1
    /\ users' = users \cup {U1}
    /\ nextId' = nextId + 1
    /\ UNCHANGED << head, transactions, sent, delivered, queue, pc, cyc, prev, firstScanned,
                    lastSave, faults >>
    /\ UNCHANGED << now, bal, passLog, tokVars, steps >>

NextPass ==
    \/ NewBlock
    \/ PassAdd
    \/ PassStart
    \/ PassDone
    \/ CycleHeadFails
    \/ CycleStart
    \/ ScanNative
    \/ ScanErc20
    \/ ScanErc721
    \/ ScanErc1155
    \/ ScanInteractions
    \/ ScanDeployments
    \/ BalanceCheck
    \/ Advance

SpecPass == Init /\ [][NextPass]_vars

\* C16: in one pass of monitor_wallets a failure while one address is
\* processed (the head read and the cursor read included) keeps the cycle of
\* no other tracked address from running: when the pass ends, the cycle of
\* every address the pass had read has run; and no step taken for one address
\* changes the cursor of another.
C16_AddressFailureContained ==
    [][ /\ (pc = "pass" /\ pc' = "idle") => passLog.visited = passLog.planned
        /\ cyc.active =>
               \A a \in Tracked \ {cyc.wallet} :
                   CursorsOf(wallets', a) = CursorsOf(wallets, a)
        /\ (pc = "pass" /\ queue # <<>> /\ queue' # queue) =>
               \A a \in Tracked : CursorsOf(wallets', a) = CursorsOf(wallets, a)
      ]_vars

\* a pass over both addresses is at its end: a call failed while one address
\* was processed, and the cycle of the other ran without a failure and moved
\* its own cursor to a value the first address does not have
C16_Witness ==
    /\ pc = "pass" /\ queue = <<>> /\ ~cyc.active
    /\ passLog.planned = Tracked
    /\ passLog.visited = Tracked
    /\ passLog.failed # {}
    /\ passLog.failed # Tracked
    /\ prev.kind = "scan"
    /\ prev.wallet \notin passLog.failed
    /\ prev.wrote
    /\ prev.after # prev.before
    /\ \E a \in passLog.failed :
           db_get_last_processed_block(wallets, a) # prev.after

\* ------------------------------------------- commands and the wallet rows
\* the (wallet_address, user_id) keys of the wallets table
KeysOf(ws) == { <<r.wallet_address, r.user_id>> : r \in ws }

IsPrefix(p, q) == Len(p) <= Len(q) /\ SubSeq(q, 1, Len(p)) = p

\* addr has an active row
IsTracked(ws, addr) == \E r \in ws : r.wallet_address = addr /\ r.is_active

\* C21: the last_processed_block of an address that is tracked before and
\* after a step is changed by no step other than the cursor update at the end
\* of a cycle; /addwallet for an address already tracked and /removewallet
\* leave it as it is.
C21_CursorChangedOnlyByAdvance ==
    [][ \A a \in {W, X} :
          (/\ IsTracked(wallets, a) /\ IsTracked(wallets', a)
           /\ db_get_last_processed_block(wallets', a) #
                  db_get_last_processed_block(wallets, a))
          => pc = "advance" /\ cyc.wallet = a
      ]_vars

C23_TrackedFromAddBlock ==
    \A a \in {W, X} :
        (cyc.active /\ cyc.wallet = a /\ addedAt[a] >= 1) =>
            /\ cyc.stored = addedAt[a] => cyc.from_block = addedAt[a] + 1
            /\ cyc.from_block > addedAt[a]

\* ---------------------------------------------------------------- C26
\* the position of a step in the steps of the scanner run
StepAt(op, e) ==
    { i \in 1..Len(steps) : steps[i].op = op /\ steps[i].ev = e }

\* C26: for every activity event the store write comes before the delivery,
\* and the cursor is written after all store writes and deliveries of the
\* cycle: while a scanner may still run the cursor is the one the cycle read
\* (stated for the cycles in which no call fails).
C26_PersistNotifyAdvance ==
    faults = 0 =>
        /\ \A i \in 1..Len(steps) :
              steps[i].op = "notify" =>
                  \E j \in StepAt("save", steps[i].ev) : j < i
        /\ (cyc.active /\ pc # "advance") =>
              db_get_last_processed_block(wallets, cyc.wallet) = cyc.stored

\* C24: within the cycle of an address the cursor is written only after each
\* of the six scanners and the balance check of that cycle have returned, and
\* the write ends the cycle: no scanner step of the cycle follows it.
C24_CursorWriteAfterScanners ==
    [][ (cyc.active /\ wallets' # wallets) =>
            /\ pc = "advance"
            /\ cyc.ran = BlockScanners \cup LogScanners
            /\ cyc.balanceChecked
            /\ wallets' = db_update_last_processed_block(wallets, cyc.wallet,
                                                         cyc.to_block)
            /\ ~cyc'.active
            /\ pc' = "pass"
      ]_vars

\* a cycle that delivered events has written a new cursor
C24_Witness ==
    /\ prev.kind = "scan"
    /\ prev.wrote
    /\ prev.after = prev.to_block
    /\ prev.after # prev.before
    /\ prev.notified # {}
    /\ ~cyc.active

\* ----------------------------------------------------- a call that hangs
\* monitor_wallets is one coroutine: it awaits check_wallet_activity for one
\* wallet after the other (main.py:640-649), and check_wallet_activity makes
\* its chain, store and delivery calls one after the other.  This
\* specification adds the call that never returns: the coroutine stays where
\* it is.  The job queue runs one instance of the job at a time.

CyclePcs == BlockScanners \cup LogScanners \cup {"balance", "advance"}

\* a chain, store or delivery call of the cycle in progress never returns
Stick ==
    /\ pc \in CyclePcs
    /\ pc' = "stuck"
    /\ UNCHANGED << head, users, wallets, nextId, transactions, balance_history,
                    sent, delivered, queue, cyc, prev, firstScanned, lastSave, faults, cmds >>
    /\ UNCHANGED << now, bal, passLog, tokVars, addedAt, steps >>

\* the steps of the monitoring job
JobStep ==
    \/ PassStart
    \/ PassDone
    \/ CycleHeadFails
    \/ CycleStart
    \/ ScanNative
    \/ ScanErc20
    \/ ScanErc721
    \/ ScanErc1155
    \/ ScanInteractions
    \/ ScanDeployments
    \/ BalanceCheck
    \/ Advance

NextStuck ==
    \/ NewBlock
    \/ PassAdd
    \/ JobStep
    \/ Stick

\* the job is fired again and again, and a call that returns lets the
\* coroutine go on
SpecStuck == Init /\ [][NextStuck]_vars /\ WF_vars(JobStep)

\* C25: when a call made for one address never returns, the cycle of every
\* other address the pass was to visit is still run.
C25_StuckCallBlocksNoOther ==
    \A a \in Tracked :
        (pc = "stuck" /\ a \in passLog.planned \ passLog.visited)
            ~> (a \in passLog.visited)

\* ---------------------------------------------------------------- C27
\* the transactions of the blocks from_block..to_block
TxsIn(from_block, to_block) ==
    UNION { { TxsOf(b)[i] : i \in 1..Len(TxsOf(b)) } :
            b \in Blocks(from_block, to_block) }

\* C27: the native loop delivers a native event only for a transaction of the
\* range that has the wallet as sender or recipient and a value above 0, and,
\* when it met no failure, exactly one for each such transaction.
C27_NativeEmission ==
    (cyc.active /\ pc = "erc20") =>
        LET txs == TxsIn(cyc.from_block, cyc.to_block)
            mine == { tx \in txs : (tx.from = cyc.wallet \/ tx.to = cyc.wallet)
                                   /\ tx.value > 0 }
        IN  /\ \A e \in cyc.notified : \E tx \in mine : tx.hash = e.hash
            /\ \A tx \in txs \ mine : StepAt("notify", Event("native", tx.hash)) = {}
            /\ "native" \notin cyc.failed =>
                  \A tx \in mine :
                      /\ Event("native", tx.hash) \in cyc.notified
                      /\ Cardinality(StepAt("notify", Event("native", tx.hash))) = 1

\* the native loop has run without a failure over a range that holds a
\* transfer sent by the wallet, one received by it, a call of the wallet
\* without value and a transfer between two other addresses
C27_Witness ==
    /\ cyc.active /\ pc = "erc20"
    /\ "native" \notin cyc.failed
    /\ LET txs == TxsIn(cyc.from_block, cyc.to_block)
       IN  /\ \E tx \in txs : tx.from = cyc.wallet /\ tx.value > 0
                              /\ Event("native", tx.hash) \in cyc.notified
           /\ \E tx \in txs : tx.to = cyc.wallet /\ tx.from # cyc.wallet
                              /\ tx.value > 0
                              /\ Event("native", tx.hash) \in cyc.notified
           /\ \E tx \in txs : tx.from = cyc.wallet /\ tx.value = 0
           /\ \E tx \in txs : tx.from # cyc.wallet /\ tx.to # cyc.wallet
                              /\ tx.value > 0

\* C28: within one cycle for one address the hash of a transaction of the
\* range is delivered as at most one activity event, also when the
\* transaction meets the rule of more than one scanner (stated for the cycles
\* in which no call fails).
C28_OneEventPerHash ==
    (faults = 0 /\ cyc.active) =>
        LET hashes == { tx.hash : tx \in TxsIn(cyc.from_block, cyc.to_block) }
        IN  \A e1, e2 \in { e \in cyc.notified : e.hash \in hashes } :
                e1.hash = e2.hash => e1 = e2

\* ---------------------------------------------------------------- C29
\* C29: the deployment scanner delivers a contract_deployment event only for
\* a transaction of the range sent by the wallet, without recipient, whose
\* receipt holds a contract address, and, when it met no failure, for every
\* such transaction; a creation without contract address and a transaction
\* with a recipient get none.
C29_DeploymentEmission ==
    (cyc.active /\ "contract_deployment" \in cyc.ran) =>
        LET txs == TxsIn(cyc.from_block, cyc.to_block)
            deployed == { tx \in txs : /\ tx.from = cyc.wallet
                                       /\ tx.to = NoAddr
                                       /\ tx.created # NoAddr }
            reported == { e.hash : e \in OfType(cyc.notified, "contract_deployment") }
        IN  /\ reported \subseteq { tx.hash : tx \in deployed }
            /\ "contract_deployment" \notin cyc.failed =>
                  reported = { tx.hash : tx \in deployed }

\* the deployment scanner has run without a failure over a range that holds
\* a creation with a contract address, which it reported, a creation without
\* one, and a call of the wallet to a contract
C29_Witness ==
    /\ cyc.active /\ "contract_deployment" \in cyc.ran
    /\ "contract_deployment" \notin cyc.failed
    /\ LET txs == TxsIn(cyc.from_block, cyc.to_block)
       IN  /\ \E tx \in txs : /\ tx.from = cyc.wallet /\ tx.to = NoAddr
                              /\ tx.created # NoAddr
                              /\ Event("contract_deployment", tx.hash) \in cyc.notified
           /\ \E tx \in txs : /\ tx.from = cyc.wallet /\ tx.to = NoAddr
                              /\ tx.created = NoAddr
                              /\ Event("contract_deployment", tx.hash) \notin cyc.notified
           /\ \E tx \in txs : tx.from = cyc.wallet /\ tx.to # NoAddr

\* ---------------------------------------------------------------- C30
\* the function name in the message of a contract_interaction event
ReportedName(e) == get_function_name(TxOf(e.hash).input)

\* C30: a contract_interaction event reports the name of the static table
\* when the selector of the input is in the table, and the literal selector
\* otherwise (stated for the runs in which no call fails).
C30_SelectorReported ==
    faults = 0 =>
        \A e \in DOMAIN sent :
            e.type = "contract_interaction" =>
                LET sel == TxOf(e.hash).input.sel
                IN  ReportedName(e) = IF sel \in DOMAIN FUNCTION_SIGNATURES
                                      THEN <<FUNCTION_SIGNATURES[sel]>>
                                      ELSE <<sel>>
\* ---------------------------------------------------------------- C31
\* the logs get_logs returns to scanner s for the range of the cycle
RangeLogs(s) == get_logs(cyc.from_block, cyc.to_block, LogSig(s))

\* C31: a Transfer log that has neither the shape the scanner decodes, or
\* whose data cannot be decoded, is skipped: the scanner that met no failure
\* of a chain or delivery call has delivered an event for every other log of
\* the range that involves the wallet, and the scanner after it is called.
C31_UndecodableLogSkipped ==
    \A s \in {"erc20", "erc721"} :
        (cyc.active /\ cyc.from_block >= 1 /\ s \in cyc.ran /\ s \notin cyc.failed) =>
            /\ { e.hash : e \in OfType(cyc.notified, s) } =
                   { l.hash : l \in { m \in RangeLogs(s) :
                                        /\ Decodes(s, m)
                                        /\ LogFrom(s, m) = cyc.wallet
                                           \/ LogTo(s, m) = cyc.wallet } }
            /\ pc # s

\* both transfer scanners have run over a range whose first Transfer log has
\* two topics only, and each has delivered an event for a log that comes
\* after a log it could not decode
C31_Witness ==
    /\ cyc.active /\ cyc.failed = {}
    /\ {"erc20", "erc721"} \subseteq cyc.ran
    /\ \E l \in RangeLogs("erc20") : Len(l.topics) = 2
    /\ \A s \in {"erc20", "erc721"} :
          \E bad, good \in RangeLogs(s) :
              /\ ~Decodes(s, bad)
              /\ bad.hash[1] = good.hash[1] /\ bad.hash[2] < good.hash[2]
              /\ Event(s, good.hash) \in cyc.notified
\* ---------------------------------------------------------------- C32
\* C32: the snapshots of an address are an append-only series whose latest
\* row is the current value: get_balance returns the balance passed to the
\* most recent save_balance call, also when two calls fall into the same
\* second, and no step changes or removes a row that is there.
C32_LatestSnapshotIsCurrent ==
    /\ [](RowsOf(balance_history, W) # {} =>
              db_get_balance(balance_history, W) =
                  {LatestSaved(balance_history, W)})
    /\ [][IsPrefix(balance_history, balance_history')]_vars
\* ------------------------------------------- two owners of one address
\* Two users track the same address W: the wallets table holds one row per
\* (wallet_address, user_id), and monitor_wallets runs one cycle per row.
\* Commands are handled between two passes.
U2 == "u2"
Owners == {U1, U2}

\* /addwallet and /removewallet commands issued by the two users
MaxOwnerCmds == 3

\* user has an active row for addr
IsOwner(ws, addr, user) ==
    \E r \in ws : r.wallet_address = addr /\ r.user_id = user /\ r.is_active

\* the rows of user for addr
RowsOfOwner(ws, addr, user) ==
    { r \in ws : r.wallet_address = addr /\ r.user_id = user }

\* /addwallet W by a user who does not track it; U1 is the first to add it
OwnerAdd ==
    /\ pc = "idle"
    /\ cmds < MaxOwnerCmds
    /\ \E u \in Owners :
        /\ ~IsOwner(wallets, W, u)
        /\ u = U2 => U1 \in users
        /\ users' = users \cup {u}
        /\ wallets' = db_add_wallet(wallets, nextId, W, u, head)
    /\ cmds' = cmds + 1
    /\ nextId' = nextId + 1
    /\ balance_history' = db_save_balance(balance_history, W, BalanceAt(head),
                                          head, NextSecond(balance_history))
    /\ addedAt' = [addedAt EXCEPT ![W] = head]
    /\ UNCHANGED << head, transactions, sent, delivered, queue, pc, cyc, prev,
                    firstScanned, lastSave, faults >>
    /\ UNCHANGED << now, bal, passLog, tokVars, steps >>

\* /removewallet W by a user who tracks it
OwnerRemove ==
    /\ pc = "idle"
    /\ cmds < MaxOwnerCmds
    /\ \E u \in Owners :
        /\ IsOwner(wallets, W, u)
        /\ wallets' = db_remove_wallet(wallets, W, u)
    /\ cmds' = cmds + 1
    /\ UNCHANGED << head, users, nextId, transactions, balance_history, sent,
                    delivered, queue, pc, cyc, prev, firstScanned, lastSave,
                    faults >>
    /\ UNCHANGED << now, bal, passLog, tokVars, addedAt, steps >>

NextOwners ==
    \/ NewBlock
    \/ OwnerAdd
    \/ OwnerRemove
    \/ JobStep

SpecOwners == Init /\ [][NextOwners]_vars

\* the activity events delivered to user
DeliveredTo(d, user) == { x[2] : x \in { y \in d : y[1] = user } }

\* C33: when two owners track the same address, each of them is notified of
\* every activity of the address in the blocks scanned since both track it:
\* at the end of a pass, each owner has received every event of every block
\* above the head of the second /addwallet up to the cursor of the owner's
\* row (stated for the runs in which no call fails and no wallet is removed).
C33_EachOwnerNotified ==
    (/\ pc = "pass" /\ queue = <<>> /\ ~cyc.active
     /\ faults = 0 /\ cmds = 2
     /\ \A u \in Owners : IsOwner(wallets, W, u)) =>
        \A u \in Owners : \A r \in RowsOfOwner(wallets, W, u) :
            \A b \in Blocks(addedAt[W] + 1, r.last_processed_block) :
                Expected(W, b) \subseteq DeliveredTo(delivered, u)
\* ------------------------------------- a command handled during a cycle
\* The monitoring job and the command handlers are coroutines of one event
\* loop: a handler runs while check_wallet_activity is suspended in an
\* awaited delivery (main.py:599, 287, 358, 430, 484, 546), and the chain
\* grows whatever the bot does.  This specification lets the head grow and
\* /addwallet be handled at these points of a cycle.

\* the chain grows by one block, at any time
RaceNewBlock ==
    /\ Off(head) < MaxGrowth
    /\ head' = head + 1
    /\ UNCHANGED << users, wallets, nextId, transactions, balance_history, sent,
                    delivered, queue, pc, cyc, prev, firstScanned, lastSave,
                    faults, cmds >>
    /\ UNCHANGED << now, bal, passLog, tokVars, addedAt, steps >>

\* the scanner that ran last in the cycle in progress has awaited a delivery
Suspended ==
    /\ cyc.active
    /\ pc \in (BlockScanners \cup LogScanners \cup {"balance"}) \ {"native"}
    /\ steps # <<>>

\* /addwallet W between two passes or while the cycle is suspended: the
\* handler reads the head, writes the wallet row and stores the snapshot
RaceAdd ==
    /\ pc = "idle" \/ Suspended
    /\ cmds < MaxCmds
    /\ cmds' = cmds + 1
    /\ users' = users \cup {U1}
    /\ wallets' = db_add_wallet(wallets, nextId, W, U1, head)
    /\ nextId' = nextId + 1
    /\ balance_history' = db_save_balance(balance_history, W, BalanceAt(head),
                                          head, NextSecond(balance_history))
    /\ addedAt' = [addedAt EXCEPT ![W] = head]
    /\ UNCHANGED << head, transactions, sent, delivered, queue, pc, cyc, prev,
                    firstScanned, lastSave, faults >>
    /\ UNCHANGED << now, bal, passLog, tokVars, steps >>

NextRace ==
    \/ RaceNewBlock
    \/ RaceAdd
    \/ JobStep

SpecRace == Init /\ [][NextRace]_vars

\* C34: the cursor of an address does not decrease when /addwallet for the
\* address is handled between the cursor read and the cursor write of a
\* cycle: the write of the cycle's to_block at the end of the cycle leaves a
\* higher cursor as it is (stated for the runs in which no call fails).
C34_CycleWriteKeepsHigherCursor ==
    [][ (pc = "advance" /\ faults' = 0 /\ IsTracked(wallets, W)) =>
            db_get_last_processed_block(wallets', W) >=
                db_get_last_processed_block(wallets, W) ]_vars
\* ---------------------------------------------------------------- C35
\* C35: a cycle whose cursor read fails, for an address whose stored cursor
\* is c > 0, scans no block at or below c: the range it goes on to scan
\* begins above c.
C35_ReadFailureNoRescan ==
    (/\ cyc.active /\ cyc.stored > 0 /\ cyc.read # cyc.stored
     /\ ~IsEmptyRange(cyc.from_block, cyc.to_block)) =>
        cyc.from_block > cyc.stored
\* ---------------------------------------------------------------- C36
\* C36: /removewallet of one owner changes the row of that owner alone: the
\* row of another owner of the same address is left as it is, active and
\* with its cursor; the next pass visits the address for every owner that
\* still tracks it, and the cycle of an only remaining owner reads the cursor
\* of that owner's row.
C36_RemoveLeavesOtherOwner ==
    [][ /\ \A u \in Owners :
              (cmds' # cmds /\ IsOwner(wallets, W, u) /\ ~IsOwner(wallets', W, u)) =>
                  /\ \A r \in wallets : r.user_id # u => r \in wallets'
                  /\ \A r \in wallets' : r.user_id # u => r \in wallets
        /\ (pc = "idle" /\ pc' = "pass") =>
              \A o \in Owners :
                  IsOwner(wallets, W, o) =>
                      \E i \in 1..Len(queue') :
                          /\ queue'[i].wallet_address = W
                          /\ queue'[i].user_id = o
        /\ \A o \in Owners :
              (/\ ~cyc.active /\ cyc'.active /\ cyc'.user = o /\ faults' = faults
               /\ \A u \in Owners \ {o} : ~IsOwner(wallets, W, u)) =>
                  \A r \in RowsOfOwner(wallets, W, o) :
                      cyc'.stored = r.last_processed_block
      ]_vars

\* one owner has removed the address, and a later cycle has scanned it for
\* the other owner: it delivered events to that owner and moved the cursor
\* of that owner's row alone
C36_Witness ==
    \E u, o \in Owners :
        /\ u # o
        /\ RowsOfOwner(wallets, W, u) # {}
        /\ ~IsOwner(wallets, W, u)
        /\ IsOwner(wallets, W, o)
        /\ prev.kind = "scan" /\ prev.wrote /\ prev.notified # {}
        /\ prev.notified \subseteq DeliveredTo(delivered, o)
        /\ prev.notified \cap DeliveredTo(delivered, u) = {}
        /\ \A r \in RowsOfOwner(wallets, W, o) : r.last_processed_block = prev.after
        /\ \A r \in RowsOfOwner(wallets, W, u) : r.last_processed_block < prev.after
\* ---------------------------------------------------------------- C37
\* user has removed addr and not added it again
Removed(ws, addr, user) ==
    RowsOfOwner(ws, addr, user) # {} /\ ~IsOwner(ws, addr, user)

\* C37: once an owner has removed the address, and until that owner adds it
\* again, a pass that starts reads no row of the pair, no cycle runs for the
\* pair, no activity event is delivered to the owner, and the row of the pair
\* keeps its last_processed_block.
C37_RemovedPairLeftAlone ==
    [][ \A u \in Owners :
          Removed(wallets, W, u) =>
              /\ (pc = "idle" /\ pc' = "pass") =>
                     \A i \in 1..Len(queue') : queue'[i].user_id # u
              /\ ~(cyc'.active /\ cyc'.user = u)
              /\ DeliveredTo(delivered', u) = DeliveredTo(delivered, u)
              /\ Removed(wallets', W, u) =>
                     RowsOfOwner(wallets', W, u) = RowsOfOwner(wallets, W, u)
      ]_vars

\* a pass that started after one owner's removal is at its end: it visited
\* the address for the other owner and delivered to that owner an event of a
\* block above the cursor of the removed row, which the removed owner did
\* not get
C37_Witness ==
    /\ pc = "pass" /\ queue = <<>> /\ ~cyc.active
    /\ passLog.visited = {W}
    /\ \E u, o \in Owners :
          /\ Removed(wallets, W, u)
          /\ IsOwner(wallets, W, o)
          /\ \E r \in RowsOfOwner(wallets, W, u) :
                \E e \in DeliveredTo(delivered, o) \ DeliveredTo(delivered, u) :
                    e.hash[1] > r.last_processed_block
====
